---- MODULE Spec2Model ----
(***************************************************************************)
(* Survey_Data_Dashboard: the ingestion function of the main page          *)
(* (src/main.py, load_and_combine_excel_files), the main page's filter     *)
(* and metrics script (src/main.py), and the notes log of the surveyor     *)
(* profile page (src/surveyor_profile.py).                                 *)
(*                                                                         *)
(* A table (pandas DataFrame) is a sequence of rows; a row is a function   *)
(* from column names to cells.  A cell is NA (pd.NA / NaN / NaT), a        *)
(* number, a string or a timestamp.                                        *)
(***************************************************************************)
EXTENDS Integers, Sequences, FiniteSets, TLC

VARIABLES
    files,              \* the .xlsx files found in DATA_FOLDER (input of the load)
    combined,           \* what load_and_combine_excel_files returned, or NotLoaded
    df,                 \* main page: the loaded table
    selected_surveyor,  \* main page: value of the surveyor selectbox
    date_range,         \* main page: value of the date_input widget, or None
    page,               \* main page: the values the last script run rendered
    csv,                \* surveyor_notes.csv: NoFile, or its sequence of lines
    csv0,               \* the content of surveyor_notes.csv when the sessions started
    pc,                 \* per session: position inside the 'Save Notes' handler
    pending,            \* per session: the note_entry and header flag already evaluated
    clock,              \* wall clock read by datetime.datetime.now()
    saves,              \* history: the 'Save Notes' clicks so far, in order
    part, whole,        \* arguments of percent
    result              \* what percent / pct_verified returned, or NotCalled

vars == <<files, combined, df, selected_surveyor, date_range, page,
          csv, csv0, pc, pending, clock, saves, part, whole, result>>

vars_load == <<files, combined>>
vars_main == <<df, selected_surveyor, date_range, page>>
vars_notes == <<csv, csv0, pc, pending, clock, saves>>
vars_pct == <<part, whole, result>>

-----------------------------------------------------------------------------
(* Cells *)

NA == [na |-> TRUE]
Num(n) == [num |-> n]
Str(s) == [str |-> s]
Ts(d, t) == [day |-> d, time |-> t]

notna(c) == c # NA
IsNum(c) == "num" \in DOMAIN c
IsStr(c) == "str" \in DOMAIN c
IsTs(c) == "day" \in DOMAIN c

NotProvided == Str("Not provided")

-----------------------------------------------------------------------------
(* Bounds *)

MaxLoadRows == 1
MaxRows == 2
MaxDay == 3
NumSessions == 2
MaxSaves == 3
MaxCount == 8

-----------------------------------------------------------------------------
(* Ingestion: load_and_combine_excel_files *)

KEY_COLUMNS ==
    {"SubmissionDate", "Geopoint1-Latitude", "Geopoint1-Longitude",
     "geopoint-Latitude", "geopoint-Longitude", "Surveyor_Name",
     "Province", "Village", "external_verification"}

\* Strings pd.to_datetime parses, with the timestamp each yields.
DateStrings == [d \in {"2024-01-02"} |-> Ts(2, 0)]
\* Strings pd.to_numeric parses, with the number each yields.
NumericStrings == [s \in {"0", "1"} |-> IF s = "1" THEN 1 ELSE 0]

\* pd.to_datetime(x, errors="coerce") on one cell
to_datetime(c) ==
    IF IsTs(c) THEN c
    ELSE IF IsStr(c) /\ c.str \in DOMAIN DateStrings THEN DateStrings[c.str]
    ELSE NA

\* pd.to_numeric(x, errors="coerce") on one cell
to_numeric(c) ==
    IF IsNum(c) THEN c
    ELSE IF IsStr(c) /\ c.str \in DOMAIN NumericStrings THEN Num(NumericStrings[c.str])
    ELSE NA

\* Series.fillna(v) on one cell
fillna(c, v) == IF notna(c) THEN c ELSE v

pick_lat_mixed(row) ==
    <<fillna(row["Geopoint1-Latitude"], row["geopoint-Latitude"]),
      fillna(row["Geopoint1-Longitude"], row["geopoint-Longitude"])>>

\* In the table pick_lat is applied to, every KEY_COLUMN is present, so
\* row.get(col) is the cell.
pick_lat(row) ==
    IF notna(row["Geopoint1-Latitude"]) /\ notna(row["Geopoint1-Longitude"])
    THEN <<row["Geopoint1-Latitude"], row["Geopoint1-Longitude"]>>
    ELSE IF notna(row["geopoint-Latitude"]) /\ notna(row["geopoint-Longitude"])
    THEN <<row["geopoint-Latitude"], row["geopoint-Longitude"]>>
    ELSE <<NA, NA>>

\* One file read by pd.read_excel, with the missing KEY_COLUMNS added as NA
\* and the __source_file column set.
ReadFile(f) ==
    [i \in 1..Len(f.rows) |->
        [c \in KEY_COLUMNS \cup {"__source_file"} |->
            IF c = "__source_file" THEN Str(f.name)
            ELSE IF c \in DOMAIN f.rows[i] THEN f.rows[i][c]
            ELSE NA]]

RECURSIVE Readable(_)
\* dfs: the files pd.read_excel read without an exception, in glob order
Readable(fs) ==
    IF fs = <<>> THEN <<>>
    ELSE IF Head(fs).readable THEN <<ReadFile(Head(fs))>> \o Readable(Tail(fs))
    ELSE Readable(Tail(fs))

RECURSIVE Concat(_)
\* pd.concat(dfs, ignore_index=True, sort=False)
Concat(dfs) ==
    IF dfs = <<>> THEN <<>> ELSE Head(dfs) \o Concat(Tail(dfs))

\* combined["SubmissionDate"] = pd.to_datetime(...)
NormalizeDates(t) ==
    [i \in 1..Len(t) |-> [t[i] EXCEPT !["SubmissionDate"] = to_datetime(@)]]

\* coords = combined.apply(pick_lat, ...); combined = pd.concat([combined, coords], axis=1)
ResolveCoords(t) ==
    [i \in 1..Len(t) |->
        [c \in DOMAIN t[i] \cup {"lat", "lon"} |->
            IF c = "lat" THEN pick_lat(t[i])[1]
            ELSE IF c = "lon" THEN pick_lat(t[i])[2]
            ELSE t[i][c]]]

\* pd.to_numeric(..., errors="coerce").fillna(0).astype(int)
NormalizeVerification(t) ==
    [i \in 1..Len(t) |->
        [t[i] EXCEPT !["external_verification"] = fillna(to_numeric(@), Num(0))]]

display_fill_cols(cols) ==
    cols \ {"lat", "lon", "SubmissionDate", "external_verification"}

\* combined[display_fill_cols] = combined[display_fill_cols].fillna("Not provided")
SentinelFill(t) ==
    [i \in 1..Len(t) |->
        [c \in DOMAIN t[i] |->
            IF c \in display_fill_cols(DOMAIN t[i])
            THEN fillna(t[i][c], NotProvided)
            ELSE t[i][c]]]

load_fill_first(fs) ==
    IF Readable(fs) = <<>> THEN <<>>
    ELSE NormalizeVerification(ResolveCoords(NormalizeDates(SentinelFill(
            Concat(Readable(fs))))))

load_and_combine_excel_files(fs) ==
    IF Readable(fs) = <<>> THEN <<>>
    ELSE SentinelFill(NormalizeVerification(ResolveCoords(NormalizeDates(
            Concat(Readable(fs))))))

-----------------------------------------------------------------------------
(* Inputs of the load *)

\* A row of a sheet that has every modelled column.
SheetRow(s, d, pla, plo, fla, flo, ev, p, v) ==
    [c \in KEY_COLUMNS |->
        CASE c = "Surveyor_Name" -> s
          [] c = "SubmissionDate" -> d
          [] c = "Geopoint1-Latitude" -> pla
          [] c = "Geopoint1-Longitude" -> plo
          [] c = "geopoint-Latitude" -> fla
          [] c = "geopoint-Longitude" -> flo
          [] c = "external_verification" -> ev
          [] c = "Province" -> p
          [] c = "Village" -> v]

\* The columns of an export that predates the Geopoint1 question and the
\* Province column.
OldColumns == KEY_COLUMNS \ {"Geopoint1-Latitude", "Geopoint1-Longitude", "Province"}

Restrict(row, cols) == [c \in cols |-> row[c]]

\* Rows that vary which coordinates are present, one distinct value per column.
CoordRows ==
    {SheetRow(Str("A"), Ts(1, 720), pla, plo, fla, flo, Num(1), Str("P1"), Str("V1")) :
        pla \in {NA, Num(11)}, plo \in {NA, Num(12)},
        fla \in {NA, Num(21)}, flo \in {NA, Num(22)}}

\* Rows that vary the timestamp, the verification flag and a display column.
TypedRows ==
    {SheetRow(Str("A"), d, NA, NA, NA, NA, ev, p, Str("V1")) :
        d \in {NA, Str("n/a"), Ts(1, 720)},
        ev \in {NA, Str("yes"), Num(2)},
        p \in {NA, Str("P1")}}

LoadRows == CoordRows \cup TypedRows

SeqsUpTo(S, n) == UNION {[1..k -> S] : k \in 0..n}

\* A file pd.read_excel raises on.
BadFile == [name |-> "bad.xlsx", readable |-> FALSE, rows |-> <<>>]

\* An older export without the OldColumns, with its dates and flags as text.
OldFile ==
    [name |-> "old.xlsx", readable |-> TRUE,
     rows |-> <<Restrict(SheetRow(Str("B"), Str("2024-01-02"), NA, NA, Num(21), Num(22),
                                  Str("1"), NA, NA), OldColumns)>>]

\* The current export: a sheet of at least one row.
LoadFiles ==
    {[name |-> "a.xlsx", readable |-> TRUE, rows |-> rs] :
        rs \in SeqsUpTo(LoadRows, MaxLoadRows) \ {<<>>}}

\* What glob finds in DATA_FOLDER.
Folders ==
    {<<>>, <<BadFile>>}
    \cup {<<f>> : f \in LoadFiles}
    \cup {<<BadFile, f>> : f \in LoadFiles}
    \cup {<<OldFile, f>> : f \in LoadFiles}

NotLoaded == [loaded |-> FALSE]
Loaded(t) == [loaded |-> TRUE, table |-> t]

NoFile == [exists |-> FALSE]
File(ls) == [exists |-> TRUE, lines |-> ls]

None == [none |-> TRUE]
NotCalled == [called |-> FALSE]

InitIdle ==
    /\ df = <<>> /\ selected_surveyor = "All Surveyors" /\ date_range = None
    /\ page = [stopped |-> TRUE]
    /\ csv = NoFile /\ csv0 = NoFile /\ pc = <<>>
    /\ pending = <<>> /\ clock = 0 /\ saves = <<>>
    /\ part = 0 /\ whole = 0 /\ result = NotCalled

InitLoad ==
    /\ files \in Folders
    /\ combined = NotLoaded
    /\ InitIdle

\* The first call of the cached function on DATA_FOLDER.
Load ==
    /\ combined = NotLoaded
    /\ combined' = Loaded(load_and_combine_excel_files(files))
    /\ UNCHANGED <<files, vars_main, vars_notes, vars_pct>>

NextLoad == Load

SpecLoad == InitLoad /\ [][NextLoad]_vars

-----------------------------------------------------------------------------
(* Main page: filters, key metrics and charts (src/main.py, module level) *)

\* Days the date picker offers.
Days == 1..MaxDay

\* Python's round(x, 1) for x = 100 * n / d, as a number of tenths: the
\* nearest tenth, a tie going to the even tenth.
RoundTenths(n, d) ==
    LET q == (1000 * n) \div d
        r == (1000 * n) % d
    IN  IF 2 * r > d \/ (2 * r = d /\ q % 2 = 1) THEN q + 1 ELSE q

percent_truncated(p, w) == IF w # 0 THEN (1000 * p) \div w ELSE 0

\* percent(part, whole), in tenths of a percent
percent(p, w) == IF w # 0 THEN RoundTenths(p, w) ELSE 0

\* pct_verified of the surveyor profile page, in tenths of a percent
pct_verified_profile(verified, total) ==
    IF total > 0 THEN RoundTenths(verified, total) ELSE 0

RECURSIVE SumColumn(_, _)
\* Series.sum() of an integer column
SumColumn(t, c) ==
    IF t = <<>> THEN 0 ELSE t[1][c].num + SumColumn(Tail(t), c)

\* Series.unique() of a column
Unique(t, c) == {t[i][c] : i \in 1..Len(t)}

\* Series.nunique(): the distinct values, NA not counted
nunique(t, c) == Cardinality(Unique(t, c) \ {NA})

\* The names the surveyor selectbox offers besides "All Surveyors".
surveyor_list(t) == {x.str : x \in Unique(t, "Surveyor_Name")}

\* filtered[filtered["Surveyor_Name"] == selected_surveyor]
FilterSurveyor(t, sel) ==
    IF sel # "All Surveyors"
    THEN LET Test(r) == r["Surveyor_Name"] = Str(sel) IN SelectSeq(t, Test)
    ELSE t

in_range_midnight(c, start, end) ==
    \/ c = NA
    \/ /\ c.day >= start
       /\ (c.day < end \/ (c.day = end /\ c.time = 0))

\* isna() | ((dt.date >= start) & (dt.date <= end)) on one SubmissionDate cell
in_range(c, start, end) ==
    \/ c = NA
    \/ (c.day >= start /\ c.day <= end)

\* The date-range filter, applied only to a complete (start, end) value.
FilterDates(t, dr) ==
    IF dr # [none |-> TRUE] /\ Len(dr.dates) = 2
    THEN LET Test(r) == in_range(r["SubmissionDate"], dr.dates[1], dr.dates[2])
         IN  SelectSeq(t, Test)
    ELSE t

\* groupby(col, dropna=False).size(): the count of each value of the column
GroupSize(t, c) ==
    [v \in Unique(t, c) |-> Cardinality({i \in 1..Len(t) : t[i][c] = v})]

subs_by_surveyor_filtered(t, flt) == GroupSize(flt, "Surveyor_Name")

\* subs_by_surveyor, grouped over the loaded table df
subs_by_surveyor(t, flt) == GroupSize(t, "Surveyor_Name")

\* value_counts().rename_axis("verified").reset_index(name="count")
value_counts(t, c) ==
    {[verified |-> v.num, count |-> Cardinality({i \in 1..Len(t) : t[i][c] = v})] :
        v \in Unique(t, c)}

\* "ensure both categories exist": a row of count 0 for a missing 0 or 1
EnsureCategory(vc, k) ==
    IF k \notin {x.verified : x \in vc}
    THEN vc \cup {[verified |-> k, count |-> 0]}
    ELSE vc

RECURSIVE SortByVerified(_)
\* sort_values("verified")
SortByVerified(vc) ==
    IF vc = {} THEN <<>>
    ELSE LET m == CHOOSE x \in vc : \A y \in vc : x.verified <= y.verified
         IN  <<m>> \o SortByVerified(vc \ {m})

verif_counts(flt) ==
    SortByVerified(EnsureCategory(EnsureCategory(
        value_counts(flt, "external_verification"), 0), 1))

\* min_date / max_date: the least and greatest timestamp, NA if there is none
Dated(t) == {t[i]["SubmissionDate"] : i \in 1..Len(t)} \ {NA}
TsLeq(a, b) == a.day < b.day \/ (a.day = b.day /\ a.time <= b.time)
min_date(t) ==
    IF Dated(t) = {} THEN NA ELSE CHOOSE a \in Dated(t) : \A b \in Dated(t) : TsLeq(a, b)
max_date(t) ==
    IF Dated(t) = {} THEN NA ELSE CHOOSE a \in Dated(t) : \A b \in Dated(t) : TsLeq(b, a)

DateRange(ds) == [dates |-> ds]

\* The date_input widget's default value; there is no widget (None) when no
\* row has a timestamp.
default_date_range(t) ==
    IF notna(min_date(t)) /\ notna(max_date(t))
    THEN DateRange(<<min_date(t).day, max_date(t).day>>)
    ELSE [none |-> TRUE]

\* One run of the page script below the load: what it renders for the table
\* and the widgets' values.  An empty table stops the script.
Script(t, sel, dr) ==
    IF t = <<>> THEN [stopped |-> TRUE]
    ELSE LET flt == FilterDates(FilterSurveyor(t, sel), dr)
         IN  [stopped |-> FALSE,
              filtered |-> flt,
              total_sub |-> Len(flt),
              total_verified |-> SumColumn(flt, "external_verification"),
              pct_verified |-> percent(SumColumn(flt, "external_verification"), Len(flt)),
              unique_provinces |-> nunique(flt, "Province"),
              unique_villages |-> nunique(flt, "Village"),
              chart_shown |-> (sel = "All Surveyors"),
              subs_by_surveyor |->
                  IF sel = "All Surveyors" THEN subs_by_surveyor(t, flt) ELSE <<>>,
              verif_counts |-> verif_counts(flt)]

\* Rows that vary who submitted and when; the time of day is in minutes,
\* noon on even days and midnight on odd ones.
SurveyRows ==
    {SheetRow(Str(s), d, NA, NA, NA, NA, Num(1), Str("P1"), Str("V1")) :
        s \in {"A", "B"},
        d \in {NA} \cup {Ts(day, IF day % 2 = 0 THEN 720 ELSE 0) : day \in Days}}

\* Rows that vary the verification flag and the location.
MetricRows ==
    {SheetRow(Str("A"), Ts(2, 0), NA, NA, NA, NA, ev, Str("P1"), Str("V1")) :
        ev \in {NA, Num(1), Num(2)}}
    \cup {SheetRow(Str("A"), Ts(2, 0), NA, NA, NA, NA, Num(1), p, v) :
        p \in {NA, Str("P1"), Str("P2")}, v \in {NA, Str("V1")}}

\* DATA_FOLDER holding one export with the given rows, or nothing.
FolderOf(rs) ==
    IF rs = <<>> THEN <<>> ELSE <<[name |-> "a.xlsx", readable |-> TRUE, rows |-> rs]>>

\* What the date_input widget can return: a start alone while the user is
\* still picking, or a (start, end) pair.
DateInputs ==
    {DateRange(<<s>>) : s \in Days}
    \cup {DateRange(<<se[1], se[2]>>) : se \in {x \in Days \X Days : x[1] <= x[2]}}

InitOther ==
    /\ combined = NotLoaded
    /\ csv = NoFile /\ csv0 = NoFile /\ pc = <<>>
    /\ pending = <<>> /\ clock = 0 /\ saves = <<>>
    /\ part = 0 /\ whole = 0 /\ result = NotCalled

\* The first run of the page: the table is loaded and the widgets hold
\* their defaults.
InitPage(rows) ==
    /\ files \in {FolderOf(rs) : rs \in SeqsUpTo(rows, MaxRows)}
    /\ df = load_and_combine_excel_files(files)
    /\ selected_surveyor = "All Surveyors"
    /\ date_range = default_date_range(df)
    /\ page = Script(df, selected_surveyor, date_range)
    /\ InitOther

Init == InitPage(SurveyRows)

InitMetrics == InitPage(MetricRows)

\* The user picks another entry of the surveyor selectbox; the script reruns.
SelectSurveyor(s) ==
    /\ ~page.stopped
    /\ s \in {"All Surveyors"} \cup surveyor_list(df)
    /\ s # selected_surveyor
    /\ selected_surveyor' = s
    /\ page' = Script(df, s, date_range)
    /\ UNCHANGED <<df, date_range, vars_load, vars_notes, vars_pct>>

\* The user changes the date_input widget; the script reruns.
ChangeDateRange(dr) ==
    /\ ~page.stopped
    /\ date_range # [none |-> TRUE]
    /\ dr # date_range
    /\ date_range' = dr
    /\ page' = Script(df, selected_surveyor, dr)
    /\ UNCHANGED <<df, selected_surveyor, vars_load, vars_notes, vars_pct>>

Next ==
    \/ \E s \in {"All Surveyors", "A", "B"} : SelectSurveyor(s)
    \/ \E dr \in DateInputs : ChangeDateRange(dr)

Spec == Init /\ [][Next]_vars

SpecMetrics == InitMetrics /\ [][Next]_vars

-----------------------------------------------------------------------------
(* Surveyor profile page: the 'Save Notes' handler (src/surveyor_profile.py) *)

Sessions == 1..NumSessions

\* The surveyor each session has selected in the sidebar.
SessionSurveyor(s) == IF s % 2 = 1 THEN "A" ELSE "B"

\* str.strip() removes these from both ends.
Whitespace == {" ", "\n"}

\* What a user may have typed into the notes text_area, as characters.
NoteTexts == {<<>>, <<" ", "\n">>, <<" ", "a", " ">>, <<"b">>}

RECURSIVE lstrip(_)
lstrip(text) ==
    IF text # <<>> /\ Head(text) \in Whitespace THEN lstrip(Tail(text)) ELSE text

RECURSIVE rstrip(_)
rstrip(text) ==
    IF text # <<>> /\ text[Len(text)] \in Whitespace
    THEN rstrip(SubSeq(text, 1, Len(text) - 1))
    ELSE text

\* notes.strip()
strip(text) == rstrip(lstrip(text))

has_text_unstripped(text) == text # <<>>

\* `if notes.strip():` a string is true when it is not empty
has_text(text) == strip(text) # <<>>

\* The header line DataFrame.to_csv writes for note_entry.
Header == [columns |-> <<"Surveyor_Name", "Timestamp", "Notes">>]

\* note_entry: one row of surveyor, time and the text as typed
note_entry(s, text, now) ==
    [Surveyor_Name |-> SessionSurveyor(s), Timestamp |-> now, Notes |-> text]

header_always(f) == TRUE

\* header=not pd.io.common.file_exists("surveyor_notes.csv")
header_flag(f) == ~f.exists

Idle == [busy |-> FALSE]

\* A log this program wrote earlier: the header and one row.
OldLog == File(<<Header, [Surveyor_Name |-> "A", Timestamp |-> 0, Notes |-> <<"o">>]>>)

InitNotes ==
    /\ csv \in {NoFile, OldLog}
    /\ csv0 = csv
    /\ pc = [s \in Sessions |-> "idle"]
    /\ pending = [s \in Sessions |-> Idle]
    /\ clock = 1
    /\ saves = <<>>
    /\ files = <<>> /\ combined = NotLoaded
    /\ df = <<>> /\ selected_surveyor = "All Surveyors" /\ date_range = None
    /\ page = [stopped |-> TRUE]
    /\ part = 0 /\ whole = 0 /\ result = NotCalled

\* The button is pressed with `text` in the text_area.  Empty or blank text
\* ends the handler; otherwise note_entry is built with the current time and
\* the header argument of to_csv is evaluated.
ClickSave(s, text) ==
    /\ pc[s] = "idle"
    /\ Len(saves) < MaxSaves
    /\ saves' = Append(saves, [session |-> s, text |-> text])
    /\ IF has_text(text)
       THEN /\ pending' = [pending EXCEPT ![s] =
                    [busy |-> TRUE, entry |-> note_entry(s, text, clock),
                     header |-> header_flag(csv)]]
            /\ pc' = [pc EXCEPT ![s] = "open"]
            /\ clock' = clock + 1
       ELSE UNCHANGED <<pending, pc, clock>>
    /\ UNCHANGED <<csv, csv0, vars_load, vars_main, vars_pct>>

\* to_csv opens the file with mode="a", which creates it when missing.
OpenCsv(s) ==
    /\ pc[s] = "open"
    /\ csv' = IF csv.exists THEN csv ELSE File(<<>>)
    /\ pc' = [pc EXCEPT ![s] = "write"]
    /\ UNCHANGED <<csv0, pending, clock, saves, vars_load, vars_main, vars_pct>>

\* to_csv writes the header, if asked to, and the row at the end of the
\* file and closes it; st.success ends the handler.
WriteCsv(s) ==
    /\ pc[s] = "write"
    /\ csv' = File(csv.lines
                   \o (IF pending[s].header THEN <<Header>> ELSE <<>>)
                   \o <<pending[s].entry>>)
    /\ pc' = [pc EXCEPT ![s] = "idle"]
    /\ pending' = [pending EXCEPT ![s] = Idle]
    /\ UNCHANGED <<csv0, clock, saves, vars_load, vars_main, vars_pct>>

NextNotes ==
    \/ \E s \in Sessions, text \in NoteTexts : ClickSave(s, text)
    \/ \E s \in Sessions : OpenCsv(s)
    \/ \E s \in Sessions : WriteCsv(s)

SpecNotes == InitNotes /\ [][NextNotes]_vars

-----------------------------------------------------------------------------
(* The percentage functions on their own *)

InitPercent ==
    /\ whole \in 0..MaxCount
    /\ part \in 0..MaxCount
    /\ result = NotCalled
    /\ files = <<>> /\ combined = NotLoaded
    /\ df = <<>> /\ selected_surveyor = "All Surveyors" /\ date_range = None
    /\ page = [stopped |-> TRUE]
    /\ csv = NoFile /\ csv0 = NoFile /\ pc = <<>>
    /\ pending = <<>> /\ clock = 0 /\ saves = <<>>

\* pct_verified = percent(total_verified, total_sub) of the main page
CallPercent ==
    /\ result = NotCalled
    /\ result' = [called |-> TRUE, by |-> "percent", value |-> percent(part, whole)]
    /\ UNCHANGED <<part, whole, vars_load, vars_main, vars_notes>>

\* pct_verified of the surveyor profile page
CallPctVerified ==
    /\ result = NotCalled
    /\ result' = [called |-> TRUE, by |-> "pct_verified",
                  value |-> pct_verified_profile(part, whole)]
    /\ UNCHANGED <<part, whole, vars_load, vars_main, vars_notes>>

NextPercent == CallPercent \/ CallPctVerified

SpecPercent == InitPercent /\ [][NextPercent]_vars

-----------------------------------------------------------------------------
(* Surveyor profile page: selection, summary and verification bars         *)
(* (src/surveyor_profile.py).  The page reads its spreadsheet with         *)
(* pd.read_excel alone: df holds the cells as read, not normalised.  It    *)
(* has its own df, selected_surveyor and filtered; the variables of the    *)
(* same names hold them under SpecProfile.                                 *)

\* The value of a selectbox that has no option.
NoSurveyor == "None"

\* A row of the profile page's sheet.
ProfileRow(s, ev) == [c \in {"Surveyor_Name", "external_verification"} |->
                        IF c = "Surveyor_Name" THEN s ELSE ev]

\* Rows that vary the surveyor and the flag as read.
ProfileRows ==
    {ProfileRow(s, ev) : s \in {NA, Str("A"), Str("B")},
                         ev \in {NA, Num(0), Num(1), Num(2)}}

\* sorted(df["Surveyor_Name"].dropna().unique()), as a set of names
surveyors(t) == {x.str : x \in Unique(t, "Surveyor_Name") \ {NA}}

\* The option a selectbox shows first: the least name of the sorted list.
FirstSurveyor(t) ==
    IF surveyors(t) = {} THEN NoSurveyor
    ELSE IF "A" \in surveyors(t) THEN "A" ELSE "B"

\* df[df["Surveyor_Name"] == selected_surveyor]
ProfileFilter(t, sel) ==
    LET Test(r) == r["Surveyor_Name"] = Str(sel) IN SelectSeq(t, Test)

RECURSIVE SumSkipNA(_, _)
\* Series.sum(), which skips missing values
SumSkipNA(t, c) ==
    IF t = <<>> THEN 0
    ELSE (IF notna(t[1][c]) THEN t[1][c].num ELSE 0) + SumSkipNA(Tail(t), c)

\* Series.value_counts(): the count of each value present, NA left out
profile_value_counts(t) ==
    [v \in Unique(t, "external_verification") \ {NA} |->
        Cardinality({i \in 1..Len(t) : t[i]["external_verification"] = v})]

\* The index label .rename({1: ..., 0: ...}) gives a counted value.
RenameLabel(v) ==
    IF v = Num(1) THEN Str("Externally Verified")
    ELSE IF v = Num(0) THEN Str("Verified through Beneficiary")
    ELSE v

\* .rename(...) of the counts
Renamed(vc) ==
    [l \in {RenameLabel(v) : v \in DOMAIN vc} |->
        vc[CHOOSE v \in DOMAIN vc : RenameLabel(v) = l]]

\* The labels .reindex asks for, in order.
BarLabels == <<"Externally Verified", "Verified by Respondent">>

\* .reindex(labels, fill_value=0): a label the counts lack gets 0
Reindex(vc, labels) ==
    [k \in 1..Len(labels) |->
        [label |-> labels[k],
         value |-> IF Str(labels[k]) \in DOMAIN vc THEN vc[Str(labels[k])] ELSE 0]]

\* verified_counts: the two bars of the 'Verification Status' chart
verified_counts(flt) == Reindex(Renamed(profile_value_counts(flt)), BarLabels)

\* One run of the profile page script for a selection.
ProfileScript(t, sel) ==
    LET flt == ProfileFilter(t, sel)
    IN  [filtered |-> flt,
         total |-> Len(flt),
         verified |-> SumSkipNA(flt, "external_verification"),
         pct_verified |->
            pct_verified_profile(SumSkipNA(flt, "external_verification"), Len(flt)),
         verified_counts |-> verified_counts(flt)]

\* The first run of the profile page: the sheet is read and the selectbox
\* shows its first option.
InitProfile ==
    /\ df \in SeqsUpTo(ProfileRows, MaxRows)
    /\ selected_surveyor = FirstSurveyor(df)
    /\ page = ProfileScript(df, selected_surveyor)
    /\ date_range = None
    /\ files = <<>>
    /\ InitOther

\* The user picks another surveyor in the sidebar; the script reruns.
SelectProfileSurveyor(s) ==
    /\ s \in surveyors(df)
    /\ s # selected_surveyor
    /\ selected_surveyor' = s
    /\ page' = ProfileScript(df, s)
    /\ UNCHANGED <<df, date_range, vars_load, vars_notes, vars_pct>>

NextProfile == \E s \in {"A", "B"} : SelectProfileSurveyor(s)

SpecProfile == InitProfile /\ [][NextProfile]_vars

-----------------------------------------------------------------------------
(* Properties of the ingestion *)

\* The table as concatenated, before any normalisation (src/main.py line 69).
RawTable == Concat(Readable(files))

PrimaryFull(r) == notna(r["Geopoint1-Latitude"]) /\ notna(r["Geopoint1-Longitude"])
FallbackFull(r) == notna(r["geopoint-Latitude"]) /\ notna(r["geopoint-Longitude"])

\* C1: every row's resolved (lat, lon) is the primary pair when the primary
\* pair is fully present, else the fallback pair when that is fully present,
\* else (absent, absent); it is never one component of each source.
C1_TwoTierFallback ==
    combined.loaded =>
        /\ Len(combined.table) = Len(RawTable)
        /\ \A i \in 1..Len(RawTable) :
            LET r == RawTable[i]
                lat == combined.table[i]["lat"]
                lon == combined.table[i]["lon"]
            IN  /\ PrimaryFull(r) =>
                        lat = r["Geopoint1-Latitude"] /\ lon = r["Geopoint1-Longitude"]
                /\ ~PrimaryFull(r) /\ FallbackFull(r) =>
                        lat = r["geopoint-Latitude"] /\ lon = r["geopoint-Longitude"]
                /\ ~PrimaryFull(r) /\ ~FallbackFull(r) => lat = NA /\ lon = NA
                /\ <<lat, lon>> \in
                        {<<r["Geopoint1-Latitude"], r["Geopoint1-Longitude"]>>,
                         <<r["geopoint-Latitude"], r["geopoint-Longitude"]>>,
                         <<NA, NA>>}

\* A loaded row whose primary pair is partial and whose fallback pair is
\* full, resolved to the fallback pair.
C1_Witness ==
    /\ combined.loaded
    /\ \E i \in 1..Len(RawTable) :
        /\ notna(RawTable[i]["Geopoint1-Latitude"])
        /\ ~notna(RawTable[i]["Geopoint1-Longitude"])
        /\ FallbackFull(RawTable[i])
        /\ combined.table[i]["lat"] = Num(21)
        /\ combined.table[i]["lon"] = Num(22)

TypedColumns == {"lat", "lon", "SubmissionDate", "external_verification"}

\* C9: in a non-empty loaded table every column other than lat, lon,
\* SubmissionDate and external_verification has each missing value replaced
\* by "Not provided" and every other value kept; lat, lon and SubmissionDate
\* never hold the sentinel and stay absent where the source had no value;
\* external_verification is an integer, 0 for missing or unparseable input.
C9_SentinelFill ==
    (combined.loaded /\ combined.table # <<>>) =>
        \A i \in 1..Len(combined.table) :
            LET r == RawTable[i]
                row == combined.table[i]
            IN  /\ \A c \in DOMAIN row \ TypedColumns :
                        /\ row[c] # NA
                        /\ row[c] = (IF r[c] = NA THEN NotProvided ELSE r[c])
                /\ \A c \in {"lat", "lon", "SubmissionDate"} : row[c] # NotProvided
                /\ r["SubmissionDate"] = NA => row["SubmissionDate"] = NA
                /\ (~PrimaryFull(r) /\ ~FallbackFull(r)) =>
                        row["lat"] = NA /\ row["lon"] = NA
                /\ IsNum(row["external_verification"])
                /\ (r["external_verification"] = NA
                     \/ (IsStr(r["external_verification"])
                         /\ r["external_verification"].str \notin DOMAIN NumericStrings))
                    => row["external_verification"] = Num(0)

\* A loaded row whose source had no Province, no coordinates, no timestamp
\* and an unparseable flag.
C9_Witness ==
    /\ combined.loaded
    /\ \E i \in 1..Len(combined.table) :
        /\ RawTable[i]["Province"] = NA
        /\ combined.table[i]["Province"] = NotProvided
        /\ combined.table[i]["Geopoint1-Latitude"] = NotProvided
        /\ combined.table[i]["lat"] = NA
        /\ combined.table[i]["SubmissionDate"] = NA
        /\ RawTable[i]["external_verification"] = Str("yes")
        /\ combined.table[i]["external_verification"] = Num(0)

-----------------------------------------------------------------------------
(* Properties of the main page *)

Rendered == ~page.stopped
RangeApplied == Rendered /\ date_range # [none |-> TRUE] /\ Len(date_range.dates) = 2

PassesSurveyor(r) ==
    selected_surveyor = "All Surveyors" \/ r["Surveyor_Name"] = Str(selected_surveyor)

\* C2: with a range [start, end] applied, the filtered set is exactly the
\* rows of the table that pass the surveyor filter and either have no
\* SubmissionDate or have a calendar date d with start <= d <= end.
C2_DateRangeFilter ==
    RangeApplied =>
        LET start == date_range.dates[1]
            end == date_range.dates[2]
            Kept(r) ==
                /\ PassesSurveyor(r)
                /\ \/ r["SubmissionDate"] = NA
                   \/ \E d \in Days : /\ r["SubmissionDate"].day = d
                                      /\ start <= d /\ d <= end
        IN  page.filtered = SelectSeq(df, Kept)

\* A range is applied to a table with a row dated on the end day after
\* midnight, which is kept, and a row dated outside the range, which is not.
C2_Witness ==
    /\ RangeApplied
    /\ \E i \in 1..Len(df) :
        /\ df[i]["SubmissionDate"] # NA
        /\ df[i]["SubmissionDate"].day = date_range.dates[2]
        /\ df[i]["SubmissionDate"].time > 0
        /\ \E k \in 1..Len(page.filtered) : page.filtered[k] = df[i]
    /\ \E j \in 1..Len(df) :
        /\ df[j]["SubmissionDate"] # NA
        /\ df[j]["SubmissionDate"].day > date_range.dates[2]
        /\ \A k \in 1..Len(page.filtered) : page.filtered[k] # df[j]

CountWhere(t, c, v) == Cardinality({i \in 1..Len(t) : t[i][c] = v})

RECURSIVE SumOver(_, _)
SumOver(f, S) ==
    IF S = {} THEN 0
    ELSE LET x == CHOOSE y \in S : TRUE IN f[x] + SumOver(f, S \ {x})

\* C6 (as claimed): the verification breakdown of every rendered filtered
\* set has exactly the two categories 0 and 1.
C6_TwoCategories ==
    Rendered =>
        /\ Len(page.verif_counts) = 2
        /\ {page.verif_counts[k].verified : k \in 1..Len(page.verif_counts)} = {0, 1}

\* C7 (as claimed): the 'Unique provinces' and 'Unique villages' metrics
\* count the distinct values of the filtered set other than "Not provided".
C7_UniqueExcludesSentinel ==
    Rendered =>
        /\ page.unique_provinces =
                Cardinality(Unique(page.filtered, "Province") \ {NotProvided})
        /\ page.unique_villages =
                Cardinality(Unique(page.filtered, "Village") \ {NotProvided})

\* C8 (as claimed): every charted count is the number of rows of the
\* filtered set that belong to that surveyor, so the counts sum to the
\* 'Total submissions' metric.
C8_ChartFromFiltered ==
    (Rendered /\ page.chart_shown) =>
        /\ \A s \in DOMAIN page.subs_by_surveyor :
                page.subs_by_surveyor[s] = CountWhere(page.filtered, "Surveyor_Name", s)
        /\ SumOver(page.subs_by_surveyor, DOMAIN page.subs_by_surveyor) = page.total_sub

\* C8 (amended): the chart is drawn exactly when "All Surveyors" is
\* selected, and every charted count is the number of rows of the whole
\* loaded table that belong to that surveyor, whatever the date range: the
\* counts sum to the size of the loaded table, which is the 'Total
\* submissions' metric only when the date filter removes no row.
C8_ChartFromLoaded ==
    Rendered =>
        /\ page.chart_shown <=> (selected_surveyor = "All Surveyors")
        /\ page.chart_shown =>
            /\ DOMAIN page.subs_by_surveyor = Unique(df, "Surveyor_Name")
            /\ \A s \in DOMAIN page.subs_by_surveyor :
                    page.subs_by_surveyor[s] = CountWhere(df, "Surveyor_Name", s)
            /\ SumOver(page.subs_by_surveyor, DOMAIN page.subs_by_surveyor) = Len(df)
            /\ (page.total_sub = Len(df)) <=>
                    (SumOver(page.subs_by_surveyor, DOMAIN page.subs_by_surveyor)
                        = page.total_sub)

\* The chart is drawn while the date range has removed a row.
C8_Witness ==
    /\ Rendered /\ page.chart_shown /\ RangeApplied
    /\ page.total_sub < Len(df)
    /\ \E s \in DOMAIN page.subs_by_surveyor :
            page.subs_by_surveyor[s] > CountWhere(page.filtered, "Surveyor_Name", s)

-----------------------------------------------------------------------------
(* Properties of the notes log *)

AllIdle == \A s \in Sessions : pc[s] = "idle"

\* The saves so far whose text is kept by `if notes.strip()`.
KeptSaves == SelectSeq(saves, LAMBDA e : strip(e.text) # <<>>)

OneSession == \A i, j \in 1..Len(saves) : saves[i].session = saves[j].session

DataLines(f) == IF f.exists THEN SelectSeq(f.lines, LAMBDA l : l # Header) ELSE <<>>
HeaderLines(f) == IF f.exists THEN SelectSeq(f.lines, LAMBDA l : l = Header) ELSE <<>>

\* C3: starting with no log file, after any sequence of saves by one
\* session the file is one header row followed by one data row per save
\* with non-blank text, in the order of the saves; with no such save there
\* is no file.
C3_SequentialLog ==
    (csv0 = NoFile /\ OneSession /\ AllIdle) =>
        IF KeptSaves = <<>> THEN csv = NoFile
        ELSE /\ csv.exists
             /\ Len(csv.lines) = 1 + Len(KeptSaves)
             /\ csv.lines[1] = Header
             /\ \A k \in 1..Len(KeptSaves) :
                    /\ csv.lines[k + 1] # Header
                    /\ csv.lines[k + 1].Notes = KeptSaves[k].text
                    /\ csv.lines[k + 1].Surveyor_Name = SessionSurveyor(KeptSaves[k].session)
                    /\ k > 1 => csv.lines[k].Timestamp < csv.lines[k + 1].Timestamp

\* One session has made two saves with text, and a blank one, from no file.
C3_Witness ==
    /\ csv0 = NoFile /\ OneSession /\ AllIdle
    /\ Len(KeptSaves) = 2 /\ Len(saves) = 3
    /\ csv.exists /\ Len(csv.lines) = 3

\* C4 (as claimed): once concurrent saves have all finished, the header is
\* in the file exactly once and is its first line, the rows the file held
\* before are still there unchanged, and each save with text has added
\* exactly one data row.
C4_ConcurrentLog ==
    (AllIdle /\ csv.exists) =>
        /\ Len(HeaderLines(csv)) = 1
        /\ csv.lines[1] = Header
        /\ Len(DataLines(csv)) = Len(DataLines(csv0)) + Len(KeptSaves)
        /\ \A k \in 1..Len(DataLines(csv0)) : DataLines(csv)[k] = DataLines(csv0)[k]

\* C5: a save whose text is empty or only whitespace leaves the file as it
\* was, absent if it was absent, and starts no write.
C5_BlankSaveNoEffect ==
    [][(Len(saves') = Len(saves) + 1 /\ strip(saves'[Len(saves')].text) = <<>>)
        => (csv' = csv /\ pc' = pc /\ pending' = pending)]_vars

\* A whitespace-only save has been made and there is still no file.
C5_Witness ==
    /\ \E k \in 1..Len(saves) : saves[k].text = <<" ", "\n">>
    /\ csv0 = NoFile /\ csv = NoFile /\ AllIdle

-----------------------------------------------------------------------------
(* Properties of the percentage *)

Abs(x) == IF x < 0 THEN -x ELSE x

\* C10: the percentage, in tenths, is 0 for a zero denominator and otherwise
\* the tenth nearest to 100 * part / whole; percent(0, 0) = 0.0,
\* percent(1, 4) = 25.0, percent(3, 3) = 100.0; and for 0 <= part <= whole
\* it lies between 0.0 and 100.0.
C10_Percent ==
    result.called =>
        /\ whole = 0 => result.value = 0
        /\ whole # 0 => 2 * Abs(result.value * whole - 1000 * part) <= whole
        /\ (part = 0 /\ whole = 0) => result.value = 0
        /\ (part = 1 /\ whole = 4) => result.value = 250
        /\ (part = 3 /\ whole = 3) => result.value = 1000
        /\ part <= whole => (0 <= result.value /\ result.value <= 1000)

\* percent was called with a zero denominator and returned 0.0.
C10_Witness ==
    /\ result.called /\ result.by = "percent"
    /\ whole = 0 /\ result.value = 0

-----------------------------------------------------------------------------
(* Properties of the profile page *)

\* Every row of the selected surveyor carries the flag 0 or 1.
FlagsBinary ==
    \A i \in 1..Len(page.filtered) :
        page.filtered[i]["external_verification"] \in {Num(0), Num(1)}

\* C11 (as claimed): for a selected surveyor whose rows all carry 0 or 1,
\* the first bar is the number of that surveyor's rows with flag 1 and the
\* second bar the number with flag 0, so the bars sum to 'Total Records'.
C11_BarsMatchFlags ==
    (selected_surveyor # NoSurveyor /\ FlagsBinary) =>
        /\ page.verified_counts[1].value =
                CountWhere(page.filtered, "external_verification", Num(1))
        /\ page.verified_counts[2].value =
                CountWhere(page.filtered, "external_verification", Num(0))
        /\ page.verified_counts[1].value + page.verified_counts[2].value = page.total

====
